---- MODULE Spec2Model ----
(***************************************************************************)
(* Project-finance dashboard: the input form, its debounce timer and the   *)
(* requests to /calculate-model, in the three revisions found in the       *)
(* repository:                                                             *)
(*   "plain"   App.jsx and FinancialTable.jsx:1-290 (plain SmartInput,     *)
(*             flat metrics, parseFloat cleaning)                          *)
(*   "acct"    unnamed/part_001 (accounting-format SmartInput, comma       *)
(*             stripping)                                                  *)
(*   "summary" FinancialTable.jsx:292-695 (summary metrics, hard-coded     *)
(*             defaults, annual_data guard)                                *)
(*                                                                         *)
(* JavaScript values are tagged records: a number is held in thousandths   *)
(* (0.25 is Num(250)), a string is a sequence of one-character strings.    *)
(* The parsers do not read exponents, hexadecimal or white space: the      *)
(* typed texts of the model contain none.                                  *)
(***************************************************************************)
EXTENDS Integers, Sequences, FiniteSets, TLC

VARIABLES rev, mounted, inputs, debouncedInputs, data, loading,
          timers, inflight, localValue, isFocused,
          nupd, nfire, nreq, nlog, lastValid

vars == <<rev, mounted, inputs, debouncedInputs, data, loading,
          timers, inflight, localValue, isFocused,
          nupd, nfire, nreq, nlog, lastValid>>

(* Bound on the number of updateField calls in one behaviour. *)
MaxUpdates == 2

(* Numbers are counted in thousandths. *)
Scale == 10 * 100

Revisions == {"plain", "acct", "summary"}

(* ------------------------------------------------------------------ *)
(* JavaScript values                                                   *)
(* ------------------------------------------------------------------ *)
Num(n) == [t |-> "num", n |-> n, s |-> <<>>]
Str(s) == [t |-> "str", n |-> 0, s |-> s]
NaN == [t |-> "nan", n |-> 0, s |-> <<>>]
Null == [t |-> "null", n |-> 0, s |-> <<>>]
Undefined == [t |-> "undef", n |-> 0, s |-> <<>>]

(* F(x) with x evaluated once, before F reads it. *)
Strict(F(_), x) == CHOOSE r \in {F(y) : y \in {x}} : TRUE

DigitChars == <<"0", "1", "2", "3", "4", "5", "6", "7", "8", "9">>
IsDigit(c) == \E i \in 1..10 : DigitChars[i] = c
DigitVal(c) == (CHOOSE i \in 1..10 : DigitChars[i] = c) - 1
DigitChar(d) == DigitChars[d + 1]

(* The fields of the form whose SmartInput the model follows; the      *)
(* other fields of each revision are cleaned and sent by the same      *)
(* expressions.                                                        *)
Fields(r) ==
  CASE r = "plain" -> {"production", "projectDuration"}
    [] r = "acct" -> {"hardCosts", "projectDuration"}
    [] OTHER -> {"forex_rate", "loan_term"}

InitialInputs(r) ==
  CASE r = "plain" ->
         [production |-> Num(1000 * Scale),
          projectDuration |-> Num(25 * Scale)]
    [] r = "acct" ->
         [hardCosts |-> Num(1000000 * Scale),
          projectDuration |-> Num(25 * Scale)]
    [] OTHER ->
         [forex_rate |-> Num(58 * Scale), loan_term |-> Num(10 * Scale),
          capacity_mw |-> Num(50 * Scale), capacity_factor |-> Num(850),
          degradation |-> Num(5), opex_per_kw |-> Num(15 * Scale),
          capex_per_mw |-> Num(1000000 * Scale)]

(* The texts a change event carries into each field (e.target.value).  *)
(* hardCosts is a text input in the accounting revision; the others are *)
(* number inputs, whose handlers read e.target.value the same way.      *)
TypedTexts(f) ==
  CASE f = "hardCosts" ->
         { <<>>, <<"1", "0", ".">>, <<"-", "5">>,
           <<"1", ",", "2", "3", "4", ".", "5">>,
           <<"1", ".", "2", "3", "4">> }
    [] f = "projectDuration" -> { <<>>, <<"0", ".", "5">> }
    [] f = "production" -> { <<>>, <<"-", "5">>, <<"x">> }
    [] f = "forex_rate" -> { <<>>, <<"-", "5">> }
    [] OTHER -> { <<>>, <<"1", "0", ".">> }

(* Truthiness: 0, NaN, '' and null are falsy. *)
Truthy(v) ==
  CASE v.t = "num" -> v.n # 0
    [] v.t = "str" -> v.s # <<>>
    [] OTHER -> FALSE

(* a || b *)
OrElse(a, b) == Strict(LAMBDA x : IF Truthy(x) THEN x ELSE b, a)

(* ------------------------------------------------------------------ *)
(* Number <-> string conversions                                       *)
(* ------------------------------------------------------------------ *)
RECURSIVE DigitRunEnd(_, _)
(* First index at or after i that does not hold a digit. *)
DigitRunEnd(s, i) ==
  IF i <= Len(s) /\ IsDigit(s[i]) THEN DigitRunEnd(s, i + 1) ELSE i

RECURSIVE IntOf(_, _, _)
(* The integer written by the digits s[i..j-1]. *)
IntOf(s, i, j) ==
  IF j <= i THEN 0 ELSE IntOf(s, i, j - 1) * 10 + DigitVal(s[j - 1])

(* Thousandths written by the fraction digits s[i..j-1]. *)
FracOf(s, i, j) ==
  LET d(k) == IF i + k < j THEN DigitVal(s[i + k]) ELSE 0
  IN  d(0) * 100 + d(1) * 10 + d(2)

(* The longest prefix of s that is a decimal literal: sign, digits,     *)
(* an optional point and digits; ok is FALSE when it has no digit.      *)
(* i1 is the end of the integer digits, i2 the end of the literal.      *)
DecimalPrefix(s) ==
  LET sg == IF Len(s) >= 1 /\ s[1] \in {"-", "+"} THEN 1 ELSE 0
      Literal(i1, i2) ==
        LET hasDot == i2 > i1
            nDigits == (i1 - (sg + 1)) + (IF hasDot THEN i2 - (i1 + 1) ELSE 0)
            mag == IntOf(s, sg + 1, i1) * Scale
                   + (IF hasDot THEN FracOf(s, i1 + 1, i2) ELSE 0)
        IN  [ok |-> nDigits > 0,
             n |-> mag * (IF sg = 1 /\ s[1] = "-" THEN 0 - 1 ELSE 1),
             end |-> i2]
      Fraction(i1) ==
        Strict(LAMBDA i2 : Literal(i1, i2),
               IF i1 <= Len(s) /\ s[i1] = "."
               THEN DigitRunEnd(s, i1 + 1) ELSE i1)
  IN  Strict(Fraction, DigitRunEnd(s, sg + 1))

RECURSIVE IntDigits(_)
IntDigits(k) ==
  IF k < 10 THEN <<DigitChar(k)>>
  ELSE Append(IntDigits(k \div 10), DigitChar(k % 10))

(* Number.prototype.toString for a number held in thousandths. *)
NumToStr(n) ==
  LET a == IF n < 0 THEN 0 - n ELSE n
      ip == a \div Scale
      fp == a % Scale
      d1 == DigitChar(fp \div 100)
      d2 == DigitChar((fp \div 10) % 10)
      d3 == DigitChar(fp % 10)
      frac == IF fp = 0 THEN <<>>
              ELSE IF fp % 10 # 0 THEN <<".", d1, d2, d3>>
              ELSE IF (fp \div 10) % 10 # 0 THEN <<".", d1, d2>>
              ELSE <<".", d1>>
  IN  (IF n < 0 THEN <<"-">> ELSE <<>>) \o IntDigits(ip) \o frac

(* String(val) *)
ToStrVal(v) ==
  CASE v.t = "num" -> NumToStr(v.n)
    [] v.t = "str" -> v.s
    [] v.t = "nan" -> <<"N", "a", "N">>
    [] v.t = "undef" -> <<"u", "n", "d", "e", "f", "i", "n", "e", "d">>
    [] OTHER -> <<"n", "u", "l", "l">>

(* parseFloat of a string. *)
parseFloatStr(s) ==
  Strict(LAMBDA p : IF p.ok THEN Num(p.n) ELSE NaN, DecimalPrefix(s))

(* str.replace(/,/g, '') *)
StripCommas(s) == SelectSeq(s, LAMBDA c : c # ",")

(* The values the form and its texts give rise to. The conversions of *)
(* these are tabulated once; any other value is converted on the spot. *)
KnownTexts ==
  UNION {TypedTexts(f) : f \in UNION {Fields(r) : r \in Revisions}}

KnownInputs ==
  UNION {{InitialInputs(r)[f] : f \in DOMAIN InitialInputs(r)} :
         r \in Revisions}
  \cup UNION {{Str(t), Str(StripCommas(t)),
               Str(SelectSeq(t, LAMBDA c : IsDigit(c) \/ c = "."))} :
              t \in KnownTexts}
  \cup {Num(0), NaN, Null}

KnownValues ==
  UNION {{v, p, Str(ToStrVal(v)), Str(ToStrVal(p))} :
         <<v, p>> \in {<<w, parseFloatStr(ToStrVal(w))>> : w \in KnownInputs}}

ToStrTable == [v \in KnownValues |-> ToStrVal(v)]

ToStr(v) ==
  Strict(LAMBDA w : IF w \in DOMAIN ToStrTable THEN ToStrTable[w]
                    ELSE ToStrVal(w), v)

(* parseFloat(val): the argument is converted to a string first. *)
parseFloatTable == [v \in KnownValues |-> parseFloatStr(ToStrVal(v))]

parseFloat(v) ==
  Strict(LAMBDA w : IF w \in DOMAIN parseFloatTable THEN parseFloatTable[w]
                    ELSE parseFloatStr(ToStrVal(w)), v)

(* parseInt of a string: sign and digits, nothing after. *)
parseIntStr(s) ==
  LET sg == IF Len(s) >= 1 /\ s[1] \in {"-", "+"} THEN 1 ELSE 0
      Integer(i1) ==
        IF i1 = sg + 1 THEN NaN
        ELSE Num(IntOf(s, sg + 1, i1) * Scale
                 * (IF sg = 1 /\ s[1] = "-" THEN 0 - 1 ELSE 1))
  IN  Strict(Integer, DigitRunEnd(s, sg + 1))

(* parseInt(val): the argument is converted to a string first. *)
parseIntTable == [v \in KnownValues |-> parseIntStr(ToStrVal(v))]

parseInt(v) ==
  Strict(LAMBDA w : IF w \in DOMAIN parseIntTable THEN parseIntTable[w]
                    ELSE parseIntStr(ToStrVal(w)), v)

(* Number(val), the coercion isNaN applies: '' is 0, and a string is a  *)
(* number only when the whole of it is a decimal literal.               *)
ToNumberVal(v) ==
  CASE v.t = "num" -> v
    [] v.t = "null" -> Num(0)
    [] v.t = "nan" -> NaN
    [] v.t = "undef" -> NaN
    [] OTHER ->
         IF v.s = <<>> THEN Num(0)
         ELSE Strict(LAMBDA p : IF p.ok /\ p.end = Len(v.s) + 1
                                 THEN Num(p.n) ELSE NaN,
                     DecimalPrefix(v.s))

ToNumber(v) == Strict(ToNumberVal, v)

isNaN(v) == ToNumber(v).t = "nan"

(* ------------------------------------------------------------------ *)
(* Accounting-format helpers (part_001)                                *)
(* ------------------------------------------------------------------ *)
RECURSIVE Group(_)
(* Integer digits in groups of three separated by commas. *)
Group(k) ==
  IF k < 1000 THEN IntDigits(k)
  ELSE Group(k \div 1000)
       \o <<",", DigitChar((k % 1000) \div 100),
            DigitChar((k \div 10) % 10), DigitChar(k % 10)>>

(* n.toLocaleString('en-US', {minimumFractionDigits: 2,                 *)
(*                            maximumFractionDigits: 2})                *)
toLocaleString2(n) ==
  LET a == IF n < 0 THEN 0 - n ELSE n
      h == (a + 5) \div 10
  IN  (IF n < 0 THEN <<"-">> ELSE <<>>)
      \o Group(h \div 100)
      \o <<".", DigitChar((h \div 10) % 10), DigitChar(h % 10)>>

formatNumber(num) ==
  IF num.t = "null" \/ num = Str(<<>>) \/ isNaN(num) THEN Str(<<>>)
  ELSE Strict(LAMBDA numValue :
                IF numValue.t = "nan" THEN Str(<<>>)
                ELSE Str(toLocaleString2(numValue.n)),
              IF num.t = "str" THEN parseFloat(Str(StripCommas(num.s)))
              ELSE num)

cleanNumber(str) ==
  IF ~Truthy(str) THEN Str(<<>>) ELSE Str(StripCommas(ToStr(str)))

RECURSIVE FirstDot(_, _)
(* Index of the first "." of s at or after i, Len(s) + 1 when none. *)
FirstDot(s, i) ==
  IF i > Len(s) \/ s[i] = "." THEN i ELSE FirstDot(s, i + 1)

RECURSIVE KeepFrom(_, _, _)
(* The characters of s from index i on, without the "." other than the *)
(* one at index dot.                                                    *)
KeepFrom(s, i, dot) ==
  IF i > Len(s) THEN <<>>
  ELSE (IF s[i] = "." /\ i # dot THEN <<>> ELSE <<s[i]>>)
       \o KeepFrom(s, i + 1, dot)

(* Strip everything but digits and points, then keep the first point. *)
sanitizeNumericInput(str) ==
  IF ~Truthy(str) THEN <<>>
  ELSE Strict(LAMBDA cleaned : KeepFrom(cleaned, 1, FirstDot(cleaned, 1)),
              SelectSeq(ToStr(str), LAMBDA c : IsDigit(c) \/ c = "."))

(* ------------------------------------------------------------------ *)
(* The form of each revision                                           *)
(* ------------------------------------------------------------------ *)
useAccountingFormat(r, f) == r = "acct" /\ f = "hardCosts"

(* The cleaning without its "|| 0". *)
CleanInput_NoDefault(r, v) ==
  IF r = "acct"
  THEN parseFloat(OrElse(IF v.t = "null" THEN Null
                         ELSE Str(StripCommas(ToStr(v))),
                         Str(<<"0">>)))
  ELSE parseFloat(v)

(* The cleaning without its replace(/,/g, ''). *)
CleanInput_NoStrip(r, v) == OrElse(parseFloat(v), Num(0))

(* One key of the debounce effect's cleanInputs. *)
CleanInput(r, v) ==
  IF r = "acct"
  THEN LET cleaned == OrElse(IF v.t = "null" THEN Null
                             ELSE Str(StripCommas(ToStr(v))),
                             Str(<<"0">>))
       IN  OrElse(parseFloat(cleaned), Num(0))
  ELSE OrElse(parseFloat(v), Num(0))

CleanInputs(r, in) == [f \in DOMAIN in |-> CleanInput(r, in[f])]

cleanValue(val) ==
  IF val.t = "null" THEN Num(0)
  ELSE OrElse(parseFloat(Str(StripCommas(ToStr(val)))), Num(0))

(* A product and a quotient are held by their terms: the first by its  *)
(* factors, the second by its dividend and its divisor.                *)
Product(fs) == [t |-> "prod", n |-> 0, s |-> <<>>, factors |-> fs]

Quotient(a, b) ==
  [t |-> "quot", n |-> 0, s |-> <<>>, dividend |-> a, divisor |-> b]

(* p > 0 for a product p of numbers. *)
ProductPositive(p) ==
  /\ \A i \in 1..Len(p.factors) : p.factors[i].n # 0
  /\ Cardinality({i \in 1..Len(p.factors) : p.factors[i].n < 0}) % 2 = 0

(* capacityMW * capacityFactor * 8760 * 1000 *)
generationKWh(d) ==
  Product(<<OrElse(d.capacity_mw, Num(50 * Scale)),
            OrElse(d.capacity_factor, Num(850)),
            Num(8760 * Scale), Num(1000 * Scale)>>)

(* generationKWh > 0 ? (opexPerKW * capacityKW) / generationKWh : 0 *)
variableOpexPHP(d) ==
  IF ProductPositive(generationKWh(d))
  THEN Quotient(Product(<<OrElse(d.opex_per_kw, Num(15 * Scale)),
                          Product(<<OrElse(d.capacity_mw, Num(50 * Scale)),
                                    Num(1000 * Scale)>>)>>),
                generationKWh(d))
  ELSE Num(0)

(* The request body with 0 as the default of every key. *)
Body_DefaultZero(r, d) ==
  CASE r = "plain" ->
         [annual_production_mwh |-> OrElse(parseFloat(d.production), Num(0)),
          project_duration_years |->
            OrElse(parseInt(d.projectDuration), Num(0))]
    [] r = "acct" ->
         [hard_costs |-> cleanValue(d.hardCosts),
          project_duration_years |->
            OrElse(parseInt(cleanValue(d.projectDuration)), Num(0))]
    [] OTHER ->
         [forex_rate |-> OrElse(d.forex_rate, Num(0)),
          tenor_years |-> OrElse(d.loan_term, Num(0))]

(* The request body of the summary revision without its "|| default". *)
Body_KeepsZero(r, d) ==
  CASE r = "plain" ->
         [annual_production_mwh |-> OrElse(parseFloat(d.production), Num(0)),
          project_duration_years |->
            OrElse(parseInt(d.projectDuration), Num(25 * Scale))]
    [] r = "acct" ->
         [hard_costs |-> cleanValue(d.hardCosts),
          project_duration_years |->
            OrElse(parseInt(cleanValue(d.projectDuration)), Num(25 * Scale))]
    [] OTHER ->
         [forex_rate |-> d.forex_rate,
          generation_kwh |->
            Product(<<d.capacity_mw, d.capacity_factor,
                      Num(8760 * Scale), Num(1000 * Scale)>>),
          degradation_rate |-> d.degradation,
          capex_usd |-> Quotient(Product(<<d.capex_per_mw, d.capacity_mw>>),
                                 d.forex_rate),
          variable_opex_php |-> variableOpexPHP(d),
          tenor_years |-> d.loan_term]

(* The request body fetchData builds from debouncedInputs. *)
Body(r, d) ==
  CASE r = "plain" ->
         [annual_production_mwh |-> OrElse(parseFloat(d.production), Num(0)),
          project_duration_years |->
            OrElse(parseInt(d.projectDuration), Num(25 * Scale))]
    [] r = "acct" ->
         [hard_costs |-> cleanValue(d.hardCosts),
          project_duration_years |->
            OrElse(parseInt(cleanValue(d.projectDuration)), Num(25 * Scale))]
    [] OTHER ->
         [forex_rate |-> OrElse(d.forex_rate, Num(58 * Scale)),
          generation_kwh |-> generationKWh(d),
          degradation_rate |-> OrElse(d.degradation, Num(5)),
          capex_usd |->
            Quotient(Product(<<OrElse(d.capex_per_mw, Num(1000000 * Scale)),
                               OrElse(d.capacity_mw, Num(50 * Scale))>>),
                     OrElse(d.forex_rate, Num(58 * Scale))),
          variable_opex_php |-> variableOpexPHP(d),
          tenor_years |-> OrElse(d.loan_term, Num(10 * Scale))]

(* The key of the request body that carries each field. *)
BodyKey(f) ==
  CASE f = "production" -> "annual_production_mwh"
    [] f = "projectDuration" -> "project_duration_years"
    [] f = "hardCosts" -> "hard_costs"
    [] f = "forex_rate" -> "forex_rate"
    [] OTHER -> "tenor_years"

(* ------------------------------------------------------------------ *)
(* State                                                               *)
(* ------------------------------------------------------------------ *)
(* data = null is the result of request 0, which is never issued. *)
NullData == [req |-> 0, body |-> <<>>, annual_data |-> FALSE]

(* A value the parent holds that is a number or the text of one. *)
ValidNumber(v) ==
  v.t = "num" \/ (v.t = "str" /\ v.s # <<>> /\ ~isNaN(v))

(* lastValid: for each field, the last valid number the parent held. *)
NextLastValid(lv, in) ==
  [f \in DOMAIN in |-> IF ValidNumber(in[f]) THEN ToNumber(in[f]) ELSE lv[f]]

Init ==
  /\ rev \in Revisions
  /\ mounted = FALSE
  /\ inputs = InitialInputs(rev)
  /\ debouncedInputs = InitialInputs(rev)
  /\ data = NullData
  /\ loading = FALSE
  /\ timers = {}
  /\ inflight = {}
  /\ localValue = [f \in Fields(rev) |-> InitialInputs(rev)[f]]
  /\ isFocused = [f \in Fields(rev) |-> FALSE]
  /\ nupd = 0
  /\ nfire = 0
  /\ nreq = 0
  /\ nlog = 0
  /\ lastValid = InitialInputs(rev)

(* ------------------------------------------------------------------ *)
(* Effects                                                             *)
(* ------------------------------------------------------------------ *)
(* The effect without its focus test: it reformats while typing. *)
SmartInputEffect_AlwaysFormats(r, f, lv, value, focused) ==
  IF useAccountingFormat(r, f) THEN formatNumber(value) ELSE value

(* SmartInput's effect: the local text it leaves, given the text lv    *)
(* the handler set, the parent's value and the focus.                  *)
SmartInputEffect(r, f, lv, value, focused) ==
  IF useAccountingFormat(r, f)
  THEN IF ~focused THEN formatNumber(value) ELSE lv
  ELSE value

(* The debounce effect without its cleanup: the pending timer stays.   *)
DebounceEffect_NoClear(pending, in) ==
  pending \cup {[inputs |-> in, stale |-> FALSE]}

(* A throttle in place of the debounce: a pending timer is kept and no *)
(* new one is set.                                                     *)
DebounceEffect_KeepPending(pending, in) ==
  IF pending # {} THEN pending ELSE {[inputs |-> in, stale |-> FALSE]}

(* The debounce effect on a change of inputs: the cleanup clears the   *)
(* pending timer, then a timer is set whose callback holds `in`.       *)
DebounceEffect(pending, in) == {[inputs |-> in, stale |-> FALSE]}

(* A timer that outlives a change of inputs no longer holds the        *)
(* current inputs.                                                     *)
MarkStale(ts) == {[t EXCEPT !.stale = TRUE] : t \in ts}

(* fetchData sending its request twice. *)
fetchData_Twice(r, d, n) ==
  {[id |-> n + 1, body |-> Body(r, d)], [id |-> n + 2, body |-> Body(r, d)]}

(* fetchData up to its await: the request it sends. *)
fetchData(r, d, n) ==
  {[id |-> n + 1, body |-> Body(r, d)]}

(* setData of every response, with or without annual_data. *)
StoreResult_Always(r, old, result) == result

(* setData that drops the response of a request older than the one    *)
(* whose result is held.                                               *)
StoreResult_IgnoreStale(r, old, result) ==
  IF result.req < old.req THEN old ELSE result

(* setData after response.json(). *)
StoreResult(r, old, result) ==
  IF r = "summary"
  THEN IF result.annual_data THEN result ELSE old
  ELSE result

updateField(in, f, val) == [in EXCEPT ![f] = val]

(* ------------------------------------------------------------------ *)
(* The metrics of the response and their cards                         *)
(* ------------------------------------------------------------------ *)
(* a > b and a < b for a number b held in thousandths. *)
GreaterThan(a, b) == ToNumber(a).t = "num" /\ ToNumber(a).n > b
LessThan(a, b) == ToNumber(a).t = "num" /\ ToNumber(a).n < b

(* v != null *)
NotNullish(v) == v.t \notin {"null", "undef"}

(* n.toFixed(2) for a number held in thousandths. *)
toFixed2(n) ==
  (IF n < 0 THEN <<"-">> ELSE <<>>)
  \o IntDigits((((IF n < 0 THEN 0 - n ELSE n) + 5) \div 10) \div 100)
  \o <<".",
       DigitChar(((((IF n < 0 THEN 0 - n ELSE n) + 5) \div 10) \div 10) % 10),
       DigitChar((((IF n < 0 THEN 0 - n ELSE n) + 5) \div 10) % 10)>>

(* formatMoney: the peso sign, written P, and the amount with grouped  *)
(* thousands and two decimals.                                         *)
formatMoney(v) ==
  IF v.t \in {"null", "undef"} \/ isNaN(v) THEN <<"P", "0", ".", "0", "0">>
  ELSE (IF ToNumber(v).n < 0 THEN <<"-">> ELSE <<>>)
       \o <<"P">>
       \o toLocaleString2(IF ToNumber(v).n < 0 THEN 0 - ToNumber(v).n
                          ELSE ToNumber(v).n)

(* data?.KEY in the flat-metrics revisions, metrics.KEY with           *)
(* metrics = data?.summary_metrics || {} in the summary revision.      *)
Metric(d, k) ==
  IF "metrics" \in DOMAIN d /\ k \in DOMAIN d.metrics THEN d.metrics[k]
  ELSE Undefined

(* The text of each card. *)
roi(r, d) ==
  IF NotNullish(Metric(d, "ROI"))
  THEN toFixed2(Metric(d, "ROI").n) \o <<"%">> ELSE <<"-">>

roe(r, d) ==
  IF NotNullish(Metric(d, "ROE"))
  THEN toFixed2(Metric(d, "ROE").n) \o <<"%">> ELSE <<"-">>

lcoe(r, d) ==
  IF NotNullish(Metric(d, "LCOE"))
  THEN formatMoney(Metric(d, "LCOE")) \o <<"/", "M", "W", "h">> ELSE <<"-">>

irr(r, d) ==
  IF NotNullish(Metric(d, "IRR"))
  THEN toFixed2(Metric(d, "IRR").n * 100) \o <<"%">> ELSE <<"-">>

dscr(r, d) ==
  IF NotNullish(Metric(d, "Avg_DSCR"))
  THEN toFixed2(Metric(d, "Avg_DSCR").n) \o <<"x">> ELSE <<"-">>

avgRoe(r, d) ==
  IF NotNullish(Metric(d, "Avg_ROE"))
  THEN toFixed2(Metric(d, "Avg_ROE").n) \o <<"%">> ELSE <<"-">>

(* The colour flags. *)
isGoodROI(r, d) ==
  IF r = "summary" THEN GreaterThan(Metric(d, "ROI"), 150)
  ELSE GreaterThan(Metric(d, "ROI"), 15 * Scale)

isGoodROE(r, d) ==
  IF r = "summary" THEN GreaterThan(Metric(d, "Avg_ROE"), 120)
  ELSE GreaterThan(Metric(d, "ROE"), 12 * Scale)

(* The LCOE flag without its test for a missing value. *)
isGoodLCOE_NoGuard(r, d) == LessThan(Metric(d, "LCOE"), 5000 * Scale)

isGoodLCOE(r, d) ==
  NotNullish(Metric(d, "LCOE")) /\ LessThan(Metric(d, "LCOE"), 5000 * Scale)

isProfitable(r, d) == GreaterThan(Metric(d, "IRR"), 120)

isBankable(r, d) == GreaterThan(Metric(d, "Avg_DSCR"), 1150)

(* What handleChange passes to onChange. *)
ChangeArg(r, f, raw) ==
  IF useAccountingFormat(r, f)
  THEN Strict(LAMBDA cleaned :
                IF cleaned = <<>> THEN Num(0)
                ELSE OrElse(parseFloat(Str(cleaned)), Num(0)),
              sanitizeNumericInput(Str(raw)))
  ELSE Str(raw)

(* A blur that calls onChange whatever the text sanitizes to. *)
BlurResult_AlwaysCalls(r, f, lv, value) ==
  IF useAccountingFormat(r, f)
  THEN Strict(LAMBDA numValue :
                [called |-> TRUE, arg |-> numValue,
                 local |-> Str(toLocaleString2(numValue.n))],
              OrElse(parseFloat(Str(sanitizeNumericInput(lv))), Num(0)))
  ELSE [called |-> TRUE, arg |-> OrElse(parseFloat(lv), Num(0)), local |-> lv]

(* handleBlur: whether it calls onChange, with what, and the local     *)
(* text it sets.                                                       *)
BlurResult(r, f, lv, value) ==
  IF useAccountingFormat(r, f)
  THEN Strict(LAMBDA sanitized :
                Strict(LAMBDA numValue :
                         IF \/ sanitized = <<>>
                            \/ sanitized = <<".">>
                            \/ numValue.t = "nan"
                         THEN [called |-> FALSE, arg |-> value,
                               local |-> IF Truthy(value)
                                         THEN formatNumber(value)
                                         ELSE Str(<<>>)]
                         ELSE [called |-> TRUE, arg |-> numValue,
                               local |-> Str(toLocaleString2(numValue.n))],
                       parseFloat(Str(sanitized))),
              sanitizeNumericInput(lv))
  ELSE IF lv = Str(<<>>) \/ isNaN(lv)
       THEN [called |-> FALSE, arg |-> value, local |-> value]
       ELSE [called |-> TRUE, arg |-> parseFloat(lv), local |-> lv]

(* ------------------------------------------------------------------ *)
(* Actions                                                             *)
(* ------------------------------------------------------------------ *)
(* The first commit: every effect runs once. *)
Mount ==
  /\ ~mounted
  /\ mounted' = TRUE
  /\ localValue' = [f \in Fields(rev) |->
                      SmartInputEffect(rev, f, localValue[f], inputs[f], FALSE)]
  /\ timers' = DebounceEffect(timers, inputs)
  /\ inflight' = inflight \cup fetchData(rev, debouncedInputs, nreq)
  /\ nreq' = nreq + Cardinality(inflight' \ inflight)
  /\ loading' = TRUE
  /\ UNCHANGED <<rev, inputs, debouncedInputs, data, isFocused,
                 nupd, nfire, nlog, lastValid>>

(* The browser focuses one field at a time. *)
handleFocus(f) ==
  /\ mounted
  /\ \A g \in Fields(rev) : ~isFocused[g]
  /\ isFocused' = [isFocused EXCEPT ![f] = TRUE]
  /\ localValue' = [localValue EXCEPT ![f] =
                      IF useAccountingFormat(rev, f)
                      THEN SmartInputEffect(rev, f, @, inputs[f], TRUE)
                      ELSE @]
  /\ UNCHANGED <<rev, mounted, inputs, debouncedInputs, data, loading,
                 timers, inflight, nupd, nfire, nreq, nlog, lastValid>>

(* A change event reaches the focused field only. *)
handleChange(f, raw) ==
  /\ mounted
  /\ isFocused[f]
  /\ nupd < MaxUpdates
  /\ \E val \in {ChangeArg(rev, f, raw)} :
       /\ inputs' = updateField(inputs, f, val)
       /\ localValue' = [localValue EXCEPT ![f] =
                           IF val # inputs[f]
                           THEN SmartInputEffect(rev, f, Str(raw), val, TRUE)
                           ELSE Str(raw)]
  /\ timers' = DebounceEffect(MarkStale(timers), inputs')
  /\ lastValid' = NextLastValid(lastValid, inputs')
  /\ nupd' = nupd + 1
  /\ UNCHANGED <<rev, mounted, debouncedInputs, data, loading, inflight,
                 isFocused, nfire, nreq, nlog>>

handleBlur(f) ==
  /\ mounted
  /\ isFocused[f]
  /\ \E b \in {BlurResult(rev, f, localValue[f], inputs[f])} :
       /\ b.called => nupd < MaxUpdates
       /\ inputs' = IF b.called THEN updateField(inputs, f, b.arg) ELSE inputs
       /\ localValue' = [localValue EXCEPT ![f] =
                           IF \/ useAccountingFormat(rev, f)
                              \/ inputs'[f] # inputs[f]
                           THEN SmartInputEffect(rev, f, b.local, inputs'[f],
                                                 FALSE)
                           ELSE b.local]
       /\ timers' = IF b.called
                    THEN DebounceEffect(MarkStale(timers), inputs')
                    ELSE timers
       /\ nupd' = IF b.called THEN nupd + 1 ELSE nupd
  /\ lastValid' = NextLastValid(lastValid, inputs')
  /\ isFocused' = [isFocused EXCEPT ![f] = FALSE]
  /\ UNCHANGED <<rev, mounted, debouncedInputs, data, loading, inflight,
                 nfire, nreq, nlog>>

(* A timer callback whose commit is skipped when the cleaned values are *)
(* those debouncedInputs already holds.                                 *)
TimerFire_Dedup(t) ==
  /\ t \in timers
  /\ timers' = timers \ {t}
  /\ nfire' = nfire + 1
  /\ UNCHANGED <<rev, mounted, inputs, data, localValue, isFocused,
                 nupd, nlog, lastValid>>
  /\ debouncedInputs' = CleanInputs(rev, t.inputs)
  /\ inflight' = IF debouncedInputs' = debouncedInputs THEN inflight
                 ELSE inflight \cup fetchData(rev, debouncedInputs', nreq)
  /\ nreq' = nreq + Cardinality(inflight' \ inflight)
  /\ loading' = (loading \/ inflight' # inflight)

(* The timer's callback, then the fetch effect of the commit it causes. *)
TimerFire(t) ==
  /\ t \in timers
  /\ timers' = timers \ {t}
  /\ nfire' = nfire + 1
  /\ loading' = TRUE
  /\ UNCHANGED <<rev, mounted, inputs, data, localValue, isFocused,
                 nupd, nlog, lastValid>>
  /\ debouncedInputs' = CleanInputs(rev, t.inputs)
  /\ inflight' = inflight \cup fetchData(rev, debouncedInputs', nreq)
  /\ nreq' = nreq + Cardinality(inflight' \ inflight)

(* A catch block that clears the result. *)
catchError_ClearsData(r) ==
  /\ inflight' = inflight \ {r}
  /\ nlog' = nlog + 1
  /\ loading' = FALSE
  /\ data' = NullData
  /\ UNCHANGED <<rev, mounted, inputs, debouncedInputs, timers,
                 localValue, isFocused, nupd, nfire, nreq, lastValid>>

(* A catch block that sends the request again. *)
catchError_Retries(r) ==
  /\ inflight' = (inflight \ {r}) \cup {[id |-> nreq + 1, body |-> r.body]}
  /\ nreq' = nreq + 1
  /\ nlog' = nlog + 1
  /\ loading' = TRUE
  /\ UNCHANGED <<rev, mounted, inputs, debouncedInputs, data, timers,
                 localValue, isFocused, nupd, nfire, lastValid>>

(* A catch block after which setLoading(false) is not reached. *)
catchError_KeepsLoading(r) ==
  /\ inflight' = inflight \ {r}
  /\ nlog' = nlog + 1
  /\ UNCHANGED <<rev, mounted, inputs, debouncedInputs, data, timers, loading,
                 localValue, isFocused, nupd, nfire, nreq, lastValid>>

(* The catch block, then setLoading(false). *)
catchError(r) ==
  /\ inflight' = inflight \ {r}
  /\ nlog' = nlog + 1
  /\ loading' = FALSE
  /\ UNCHANGED <<rev, mounted, inputs, debouncedInputs, data, timers,
                 localValue, isFocused, nupd, nfire, nreq, lastValid>>

(* fetch rejects. *)
fetchRejected(r) ==
  /\ r \in inflight
  /\ catchError(r)

(* fetch resolves and response.json() rejects. *)
jsonRejected(r) ==
  /\ r \in inflight
  /\ catchError(r)

(* fetch and response.json() resolve: setData, then setLoading(false).  *)
(* The state between the two awaits differs in nothing the component   *)
(* holds, so the two are one step.                                     *)
jsonResolved(r, annual) ==
  /\ r \in inflight
  /\ inflight' = inflight \ {r}
  /\ data' = StoreResult(rev, data,
                         [req |-> r.id, body |-> r.body, annual_data |-> annual])
  /\ loading' = FALSE
  /\ UNCHANGED <<rev, mounted, inputs, debouncedInputs, timers, localValue,
                 isFocused, nupd, nfire, nreq, nlog, lastValid>>

(* fetch and response.json() resolve with a payload that carries the   *)
(* metrics m.                                                          *)
jsonResolvedWith(r, annual, m) ==
  /\ r \in inflight
  /\ inflight' = inflight \ {r}
  /\ data' = StoreResult(rev, data,
                         [req |-> r.id, body |-> r.body,
                          annual_data |-> annual, metrics |-> m])
  /\ loading' = FALSE
  /\ UNCHANGED <<rev, mounted, inputs, debouncedInputs, timers, localValue,
                 isFocused, nupd, nfire, nreq, nlog, lastValid>>

TimerFires == \E t \in timers : TimerFire(t)

Next ==
  \/ Mount
  \/ \E f \in Fields(rev) : handleFocus(f)
  \/ \E f \in Fields(rev) : \E raw \in TypedTexts(f) : handleChange(f, raw)
  \/ \E f \in Fields(rev) : handleBlur(f)
  \/ TimerFires
  \/ \E r \in inflight : fetchRejected(r)
  \/ \E r \in inflight : \E annual \in BOOLEAN : jsonResolved(r, annual)
  \/ \E r \in inflight : jsonRejected(r)

Spec == Init /\ [][Next]_vars

(* A pending timer fires: the browser runs every timer that is not     *)
(* cleared.                                                            *)
FairSpec == Spec /\ WF_vars(TimerFires)

(* The end of a request: the fetch or response.json() rejects, or both *)
(* resolve.                                                            *)
Settles ==
  \E r \in inflight :
    \/ fetchRejected(r)
    \/ jsonRejected(r)
    \/ \E annual \in BOOLEAN : jsonResolved(r, annual)

(* Every fetch eventually resolves or rejects. *)
SettleSpec == Spec /\ WF_vars(Settles)

(* ------------------------------------------------------------------ *)
(* The form left alone, with any initial values and any payload        *)
(* ------------------------------------------------------------------ *)
(* Comma-separated texts and the numbers they write, in thousandths. *)
CommaSamples ==
  { [text |-> <<"1", ",", "2", "3", "4", ".", "5", "0">>,
     number |-> 1234 * Scale + 500],
    [text |-> <<"2", ",", "5", "0", "0">>, number |-> 2500 * Scale],
    [text |-> <<"1", ",", "0", "0", "0", ",", "0", "0", "0", ".", "2", "5">>,
     number |-> 1000000 * Scale + 250] }

(* The values useState(inputs) is given: those of the source, or a     *)
(* comma-separated text in a field of the accounting revision, or 0    *)
(* or a negative number in a field of the summary revision.            *)
AnyInputs(r) ==
  CASE r = "acct" ->
         [Fields(r) -> {InitialInputs(r)[f] : f \in Fields(r)}
                       \cup {Str(c.text) : c \in CommaSamples}]
    [] r = "summary" ->
         {[InitialInputs(r) EXCEPT !.forex_rate = fx, !.capacity_mw = mw,
                                   !.capacity_factor = cf, !.degradation = dg] :
            fx \in {Num(58 * Scale), Num(0)},
            mw \in {Num(50 * Scale), Num(0), Num(0 - 50 * Scale)},
            cf \in {Num(850), Num(0 - 850)},
            dg \in {Num(5), Num(0)}}
    [] OTHER -> {InitialInputs(r)}

(* The metrics a payload may carry: absent, null, and numbers at and   *)
(* on either side of each threshold.                                   *)
Payloads(r) ==
  IF r = "summary"
  THEN [IRR : {Undefined, Num(120), Num(121)},
        Avg_DSCR : {Undefined, Num(1150), Num(1160)},
        ROI : {Undefined, Num(150), Num(160), Num(10 * Scale),
               Num(20 * Scale)},
        Avg_ROE : {Num(120), Num(130), Num(10 * Scale)}]
  ELSE [ROI : {Undefined, Null, Num(15 * Scale), Num(15 * Scale + 10)},
        ROE : {Undefined, Num(12 * Scale), Num(12 * Scale + 10)},
        LCOE : {Undefined, Null, Num(5000 * Scale - 10), Num(5000 * Scale),
                Num(5000 * Scale + 10)}]

OpenInit ==
  /\ rev \in Revisions
  /\ mounted = FALSE
  /\ inputs \in AnyInputs(rev)
  /\ debouncedInputs = inputs
  /\ data = NullData
  /\ loading = FALSE
  /\ timers = {}
  /\ inflight = {}
  /\ localValue = [f \in Fields(rev) |-> inputs[f]]
  /\ isFocused = [f \in Fields(rev) |-> FALSE]
  /\ nupd = 0
  /\ nfire = 0
  /\ nreq = 0
  /\ nlog = 0
  /\ lastValid = inputs

OpenNext ==
  \/ Mount
  \/ TimerFires
  \/ \E r \in inflight : fetchRejected(r)
  \/ \E r \in inflight : jsonRejected(r)
  \/ \E r \in inflight : \E annual \in BOOLEAN : \E m \in Payloads(rev) :
       jsonResolvedWith(r, annual, m)

OpenSpec == OpenInit /\ [][OpenNext]_vars


(* ------------------------------------------------------------------ *)
(* Properties                                                          *)
(* ------------------------------------------------------------------ *)
(* C1: every updateField leaves exactly one pending timer, the one it  *)
(* starts, holding the new inputs, and changes neither debouncedInputs *)
(* nor the requests; debouncedInputs changes and a request is issued   *)
(* after mount only when a timer fires, and the timer that fires was   *)
(* started after the last change of inputs and cleans the current      *)
(* inputs.                                                             *)
C1_Debounce ==
  [][ /\ (nupd' # nupd =>
            /\ timers' = {[inputs |-> inputs', stale |-> FALSE]}
            /\ debouncedInputs' = debouncedInputs
            /\ nreq' = nreq
            /\ nfire' = nfire)
      /\ (nfire' # nfire =>
            /\ nupd' = nupd
            /\ \E t \in timers : /\ ~t.stale
                                 /\ t.inputs = inputs
                                 /\ timers' = timers \ {t}
            /\ debouncedInputs' = CleanInputs(rev, inputs))
      /\ ((debouncedInputs' # debouncedInputs \/ (mounted /\ nreq' # nreq))
            => nfire' = nfire + 1)
      /\ Cardinality(timers') <= 1
    ]_vars

(* Two changes arrived before any timer fired, then the timer fired:   *)
(* no timer is pending and the one firing cleaned the changed inputs.  *)
C1_Witness ==
  /\ nupd = 2
  /\ nfire = 1
  /\ timers = {}
  /\ debouncedInputs = CleanInputs(rev, inputs)
  /\ debouncedInputs # InitialInputs(rev)

(* C2: a request leaves the set of requests in flight only by its own  *)
(* completion, never by a change of inputs or a timer firing; a timer  *)
(* firing adds one to those in flight; and in the flat-metrics         *)
(* revisions the response that arrives is stored in data whatever the  *)
(* age of its request.                                                 *)
C2_NoCancel ==
  [][ /\ \A r \in inflight \ inflight' :
           /\ inflight' = inflight \ {r}
           /\ nupd' = nupd
           /\ nfire' = nfire
           /\ timers' = timers
           /\ \/ nlog' = nlog + 1 /\ data' = data
              \/ nlog' = nlog /\ data'.req = r.id /\ data'.body = r.body
              \/ nlog' = nlog /\ rev = "summary" /\ data' = data
      /\ (nfire' # nfire =>
            /\ inflight \subseteq inflight'
            /\ Cardinality(inflight') = Cardinality(inflight) + 1)
    ]_vars

(* Every request has completed, none failed, and data is the response  *)
(* to an older request, whose body is not that of debouncedInputs.     *)
C2_Witness ==
  /\ rev # "summary"
  /\ inflight = {}
  /\ nlog = 0
  /\ nreq >= 2
  /\ data.req # 0
  /\ data.req < nreq
  /\ data.body # Body(rev, debouncedInputs)

(* The timer has fired, none is pending, and the newest request is in  *)
(* flight with the body of the current inputs.                         *)
FiredLatest ==
  /\ nfire >= 1
  /\ timers = {}
  /\ \E r \in inflight : /\ r.id = nreq
                         /\ r.body = Body(rev, CleanInputs(rev, inputs))

(* C3: whenever a timer is pending, as it is after every updateField,  *)
(* the timer eventually fires and the request it issues has the body   *)
(* computed from the value every input field has at that time.         *)
C3_Refetch == (timers # {}) ~> FiredLatest

(* A changed field has been sent. *)
C3_Witness ==
  /\ FiredLatest
  /\ nupd >= 1
  /\ debouncedInputs # InitialInputs(rev)

(* C4: a step in which the timer fires is one firing and issues at     *)
(* most one request.                                                   *)
C4_OneRequestPerFire ==
  [][ nfire' # nfire =>
        /\ nfire' = nfire + 1
        /\ nreq' <= nreq + 1
        /\ Cardinality(inflight' \ inflight) <= 1
    ]_vars

(* The timer has fired twice: three requests have been issued. *)
C4_Witness == nfire = 2 /\ nreq = 3 /\ Cardinality(inflight) = 3

(* C5: a step that logs an error is the failure of one request: it     *)
(* logs once, sets loading to false, issues nothing and changes        *)
(* nothing else the component holds.                                   *)
C5_FailureOnlyLogged ==
  [][ nlog' # nlog =>
        /\ nlog' = nlog + 1
        /\ \E r \in inflight : inflight' = inflight \ {r}
        /\ data' = data
        /\ inputs' = inputs
        /\ debouncedInputs' = debouncedInputs
        /\ localValue' = localValue
        /\ isFocused' = isFocused
        /\ timers' = timers
        /\ nreq' = nreq
        /\ loading' = FALSE
    ]_vars

(* The second request failed and data still holds the response to the  *)
(* first.                                                              *)
C5_Witness ==
  /\ nreq = 2
  /\ inflight = {}
  /\ nlog = 1
  /\ data.req = 1
  /\ ~loading

(* C6: the requests issued are the one of the mount and one for each   *)
(* firing of the timer, whatever became of the earlier requests.       *)
C6_NoRetry == nreq = (IF mounted THEN 1 + nfire ELSE 0)

(* Requests failed, the timer fired, and nothing is pending any more. *)
C6_Witness ==
  /\ nlog >= 2
  /\ nfire >= 1
  /\ inflight = {}
  /\ timers = {}
  /\ nreq = 1 + nfire

(* A value that holds no digit: it does not parse as a number. *)
Malformed(v) ==
  \/ v.t = "null"
  \/ v.t = "str" /\ \A i \in 1..Len(v.s) : ~IsDigit(v.s[i])

(* C7 as stated: when the timer fires, every malformed field is 0 in   *)
(* debouncedInputs and 0 in its key of the request body.               *)
C7_Original ==
  [][ nfire' # nfire =>
        \A f \in Fields(rev) :
          Malformed(inputs[f]) =>
            /\ debouncedInputs'[f] = Num(0)
            /\ \A r \in inflight' \ inflight : r.body[BodyKey(f)] = Num(0)
    ]_vars

(* C7 amended: when the timer fires, every malformed field is 0 in     *)
(* debouncedInputs; in the flat-metrics revisions its key of the body  *)
(* is 0, except project_duration_years, which is 25; in the summary    *)
(* revision its key of the body is the field's hard-coded default.     *)
C7_CoercedToZero ==
  [][ nfire' # nfire =>
        \A f \in Fields(rev) :
          Malformed(inputs[f]) =>
            /\ debouncedInputs'[f] = Num(0)
            /\ \A r \in inflight' \ inflight :
                 r.body[BodyKey(f)] =
                   CASE f = "projectDuration" -> Num(25 * Scale)
                     [] f = "forex_rate" -> Num(58 * Scale)
                     [] f = "loan_term" -> Num(10 * Scale)
                     [] OTHER -> Num(0)
    ]_vars

(* The timer fired while the duration field held no number: the field  *)
(* is 0 in debouncedInputs and 25 in the newest request.               *)
C7_Witness ==
  /\ rev # "summary"
  /\ Malformed(inputs["projectDuration"])
  /\ nfire >= 1
  /\ timers = {}
  /\ debouncedInputs["projectDuration"] = Num(0)
  /\ \E r \in inflight :
       r.id = nreq /\ r.body["project_duration_years"] = Num(25 * Scale)

(* C8: a blur of a plain SmartInput whose text is empty or not a       *)
(* number does not call onChange, and leaves both the text shown and   *)
(* the parent's value at the last valid number the field held.         *)
C8_RevertOnBlur ==
  [][ \A f \in Fields(rev) :
        ( /\ isFocused[f]
          /\ ~isFocused'[f]
          /\ ~useAccountingFormat(rev, f)
          /\ (localValue[f] = Str(<<>>) \/ isNaN(localValue[f])) )
        => /\ inputs' = inputs
           /\ nupd' = nupd
           /\ localValue'[f] # Str(<<>>)
           /\ ToNumber(localValue'[f]) = lastValid[f]
           /\ inputs'[f] # Str(<<>>)
           /\ ToNumber(inputs'[f]) = lastValid[f]
    ]_vars

(* C9: every value of every request body is a number and is not        *)
(* negative, and the parent's value of every accounting-format field   *)
(* is a number that is not negative.                                   *)
C9_NumericNonNegative ==
  /\ \A r \in inflight : \A k \in DOMAIN r.body :
       r.body[k].t = "num" /\ r.body[k].n >= 0
  /\ \A f \in Fields(rev) :
       useAccountingFormat(rev, f) => inputs[f].t = "num" /\ inputs[f].n >= 0

(* C10: a change event leaves in the field exactly the text typed, the *)
(* one whose onChange argument the parent now holds, and no other step *)
(* changes the text of a field that stays focused.                     *)
C10_TypedTextKept ==
  [][ \A f \in Fields(rev) :
        (isFocused[f] /\ isFocused'[f]) =>
          IF nupd' # nupd
          THEN /\ localValue'[f].t = "str"
               /\ localValue'[f].s \in TypedTexts(f)
               /\ inputs'[f] = ChangeArg(rev, f, localValue'[f].s)
          ELSE localValue'[f] = localValue[f]
    ]_vars

(* "10." is still shown in the focused accounting-format field after   *)
(* the timer fired and the response to the new inputs arrived.         *)
C10_Witness ==
  /\ rev = "acct"
  /\ isFocused["hardCosts"]
  /\ localValue["hardCosts"] = Str(<<"1", "0", ".">>)
  /\ inflight = {}
  /\ data.req = nreq
  /\ data.body["hard_costs"] = Num(10 * Scale)

(* A text with a point and exactly two decimals whose integer digits   *)
(* stand in groups of three separated by commas.                       *)
IsAccountingText(s) ==
  /\ Len(s) >= 4
  /\ s[Len(s) - 2] = "."
  /\ IsDigit(s[Len(s) - 1])
  /\ IsDigit(s[Len(s)])
  /\ (Len(s) - 3) % 4 # 0
  /\ \A i \in 1..(Len(s) - 3) :
       IF (Len(s) - 2 - i) % 4 = 0 THEN s[i] = "," ELSE IsDigit(s[i])
  /\ (s[1] = "0" => Len(s) = 4)

(* A number that is not negative, rounded to hundredths. *)
RoundTwo(v) == Num(((v.n + 5) \div 10) * 10)

(* C11: a blur of an accounting-format field whose text sanitizes to   *)
(* a number calls onChange once with that number and leaves in the     *)
(* field the number, rounded to two decimals and written with grouped  *)
(* thousands; a blur whose text sanitizes to '' or '.' does not call   *)
(* onChange and leaves in the field the parent's value written the     *)
(* same way.                                                           *)
C11_ReformatOnBlur ==
  [][ \A f \in Fields(rev) :
        (useAccountingFormat(rev, f) /\ isFocused[f] /\ ~isFocused'[f]) =>
          /\ localValue'[f].t = "str"
          /\ IsAccountingText(localValue'[f].s)
          /\ inputs'[f].t = "num"
          /\ parseFloatStr(StripCommas(localValue'[f].s)) = RoundTwo(inputs'[f])
          /\ IF sanitizeNumericInput(localValue[f]) \in {<<>>, <<".">>}
             THEN nupd' = nupd /\ inputs' = inputs
             ELSE /\ nupd' = nupd + 1
                  /\ inputs'[f] =
                       parseFloatStr(sanitizeNumericInput(localValue[f]))
    ]_vars

(* "1,234.5" was typed and the field left: it shows "1,234.50" and the *)
(* parent holds 1234.5.                                                *)
C11_Witness ==
  /\ rev = "acct"
  /\ ~isFocused["hardCosts"]
  /\ nupd = 2
  /\ localValue["hardCosts"] =
       Str(<<"1", ",", "2", "3", "4", ".", "5", "0">>)
  /\ inputs["hardCosts"] = Num(1234 * Scale + 500)

(* C14: whenever loading is false no request is in flight. *)
C14_LoadingWhileInFlight == ~loading => inflight = {}

C16_NoDedup ==
  [][ /\ (nfire' # nfire =>
            /\ nreq' = nreq + 1
            /\ \E r \in inflight' \ inflight :
                 /\ r.id = nreq'
                 /\ r.body = Body(rev, CleanInputs(rev, inputs))
                 /\ inflight' = inflight \cup {r})
      /\ \A f \in Fields(rev) :
           (isFocused[f] /\ ~isFocused'[f] /\ nupd' # nupd) =>
             timers' = {[inputs |-> inputs', stale |-> FALSE]}
    ]_vars

(* A blur re-submitted the number the parent held; the timer of the    *)
(* mount and the timer of the blur have fired, and the three requests  *)
(* issued, all in flight, have one and the same body.                  *)
C16_Witness ==
  /\ nupd = 1
  /\ inputs = InitialInputs(rev)
  /\ debouncedInputs = InitialInputs(rev)
  /\ nfire = 2
  /\ nreq = 3
  /\ Cardinality(inflight) = 3
  /\ \A r \in inflight : r.body = Body(rev, InitialInputs(rev))

(* C17: after a blur of an accounting-format field the number the      *)
(* parent holds is the number that the text shown parses to; and a     *)
(* blur of a field that still shows the text of the parent's value     *)
(* changes neither the text nor the value.                             *)
C17_DisplayAgrees ==
  [][ \A f \in Fields(rev) :
        (useAccountingFormat(rev, f) /\ isFocused[f] /\ ~isFocused'[f]) =>
          /\ parseFloatStr(StripCommas(localValue'[f].s)) = inputs'[f]
          /\ (localValue[f] = formatNumber(inputs[f]) =>
                /\ localValue'[f] = localValue[f]
                /\ inputs'[f] = inputs[f])
    ]_vars

(* C19: while a request is in flight, a state is eventually reached in *)
(* which no request is in flight and loading is false.                 *)
C19_LoadingCleared == (inflight # {}) ~> (inflight = {} /\ ~loading)

(* Three requests were issued; one failed, one succeeded and one       *)
(* returned unparseable JSON or failed as well; loading is false.      *)
C19_Witness ==
  /\ nreq = 3
  /\ nlog = 2
  /\ data.req # 0
  /\ inflight = {}
  /\ ~loading

(* The whole number of v, cut towards zero, in thousandths. *)
Truncated(v) ==
  IF v.n < 0 THEN 0 - (((0 - v.n) \div Scale) * Scale)
  ELSE (v.n \div Scale) * Scale

C12_CommasStripped ==
  [][ rev = "acct" =>
        \A c \in CommaSamples :
          /\ \A f \in Fields(rev) :
               (nfire' # nfire /\ inputs[f] = Str(c.text)) =>
                 debouncedInputs'[f] = Num(c.number)
          /\ \A r \in inflight' \ inflight :
               /\ (~mounted /\ debouncedInputs["hardCosts"] = Str(c.text)) =>
                    r.body["hard_costs"] = Num(c.number)
               /\ (~mounted /\ debouncedInputs["projectDuration"] = Str(c.text))
                    => r.body["project_duration_years"].n
                         = Truncated(Num(c.number))
    ]_vars

(* Hard costs was "1,234.50": the request of the mount, still in       *)
(* flight, carries 1234.5, and the timer has put 1234.5 in             *)
(* debouncedInputs.                                                    *)
C12_Witness ==
  /\ rev = "acct"
  /\ inputs["hardCosts"] = Str(<<"1", ",", "2", "3", "4", ".", "5", "0">>)
  /\ nfire = 1
  /\ debouncedInputs["hardCosts"] = Num(1234 * Scale + 500)
  /\ \E r \in inflight :
       r.id = 1 /\ r.body["hard_costs"] = Num(1234 * Scale + 500)

Shown(text) == parseFloatStr(text)

(* C18: in the summary revision each of the IRR, ROI and Avg ROE cards *)
(* is flagged exactly when the percentage it shows is above 12, 15 and *)
(* 12, and the Avg DSCR card exactly when Avg DSCR is above 1.15.      *)
C18_ThresholdUnits ==
  rev = "summary" =>
    /\ isProfitable(rev, data) <=>
         (Shown(irr(rev, data)).t = "num"
          /\ Shown(irr(rev, data)).n > 12 * Scale)
    /\ isBankable(rev, data) <=>
         (Metric(data, "Avg_DSCR").t = "num"
          /\ Metric(data, "Avg_DSCR").n > 1150)
    /\ isGoodROI(rev, data) <=>
         (Shown(roi(rev, data)).t = "num"
          /\ Shown(roi(rev, data)).n > 15 * Scale)
    /\ isGoodROE(rev, data) <=>
         (Shown(avgRoe(rev, data)).t = "num"
          /\ Shown(avgRoe(rev, data)).n > 12 * Scale)

(* The value sent for a field: its hard-coded default when the field   *)
(* is 0 in debouncedInputs, the field's value otherwise.               *)
Substituted(v, default) == IF v = Num(0) THEN Num(default) ELSE v

(* C21: in the summary revision every request issued carries, for each *)
(* field that is 0 in debouncedInputs, the field's hard-coded default, *)
(* in the keys that copy a field and in the terms of the keys that are *)
(* computed; the divisor of capex_usd is a number other than 0; and    *)
(* variable_opex_php is a quotient by generation_kwh exactly when      *)
(* generation_kwh is above 0, and is 0 otherwise.                      *)
C21_DefaultSubstitution ==
  [][ rev = "summary" =>
        \A r \in inflight' \ inflight :
          /\ r.body["forex_rate"] =
               Substituted(debouncedInputs'["forex_rate"], 58 * Scale)
          /\ r.body["tenor_years"] =
               Substituted(debouncedInputs'["loan_term"], 10 * Scale)
          /\ r.body["degradation_rate"] =
               Substituted(debouncedInputs'["degradation"], 5)
          /\ r.body["generation_kwh"].factors[1] =
               Substituted(debouncedInputs'["capacity_mw"], 50 * Scale)
          /\ r.body["generation_kwh"].factors[2] =
               Substituted(debouncedInputs'["capacity_factor"], 850)
          /\ r.body["capex_usd"].t = "quot"
          /\ r.body["capex_usd"].dividend.factors[2] =
               Substituted(debouncedInputs'["capacity_mw"], 50 * Scale)
          /\ r.body["capex_usd"].divisor.t = "num"
          /\ r.body["capex_usd"].divisor.n # 0
          /\ IF (Substituted(debouncedInputs'["capacity_mw"], 50 * Scale).n > 0)
                = (Substituted(debouncedInputs'["capacity_factor"], 850).n > 0)
             THEN /\ r.body["variable_opex_php"].t = "quot"
                  /\ r.body["variable_opex_php"].divisor
                       = r.body["generation_kwh"]
             ELSE r.body["variable_opex_php"] = Num(0)
    ]_vars

(* Forex, capacity and degradation are 0 in debouncedInputs: the       *)
(* newest request carries 58, 0.005 and a generation computed from 50  *)
(* MW, and the opex per kWh is a quotient.                             *)
C21_Witness ==
  /\ rev = "summary"
  /\ nfire = 1
  /\ debouncedInputs["forex_rate"] = Num(0)
  /\ debouncedInputs["capacity_mw"] = Num(0)
  /\ debouncedInputs["degradation"] = Num(0)
  /\ \E r \in inflight :
       /\ r.id = nreq
       /\ r.body["forex_rate"] = Num(58 * Scale)
       /\ r.body["degradation_rate"] = Num(5)
       /\ r.body["generation_kwh"].factors[1] = Num(50 * Scale)
       /\ r.body["capex_usd"].divisor = Num(58 * Scale)
       /\ r.body["variable_opex_php"].t = "quot"

(* C22: in the summary revision data is null or a response that has    *)
(* annual_data, and a response that arrives either has annual_data and *)
(* becomes data or leaves data as it was; in the flat-metrics          *)
(* revisions every response that arrives becomes data.                 *)
C22_AnnualDataGuard ==
  /\ [](rev = "summary" => (data = NullData \/ data.annual_data))
  /\ [][ \A r \in inflight \ inflight' :
           nlog' = nlog =>
             IF rev = "summary"
             THEN \/ data' = data
                  \/ /\ data'.req = r.id
                     /\ data'.body = r.body
                     /\ data'.annual_data
             ELSE data'.req = r.id /\ data'.body = r.body
       ]_vars

(* The first response had annual_data and is held; the second had none *)
(* and was dropped without an error.                                   *)
C22_Witness ==
  /\ rev = "summary"
  /\ nreq = 2
  /\ inflight = {}
  /\ nlog = 0
  /\ data.req = 1
  /\ data.annual_data
  /\ data.body # Body(rev, debouncedInputs)

====
